---- MODULE Spec2Model ----
(***************************************************************************)
(* The chat session component of YewChat (src/components/chat.rs): the     *)
(* wire codec (WebSocketMessage / MessageData through serde_json), the     *)
(* component state (Chat) and its two entry points, Chat::create and       *)
(* Chat::update, one action per Msg variant.                               *)
(*                                                                         *)
(* Text is a sequence of tokens.  A typed text such as " h " is the        *)
(* sequence of its characters; the JSON text carried in the data field of  *)
(* a "message" frame is the sequence of its lexical tokens.  A frame on    *)
(* the wire is the syntax tree of its text: whether it is a JSON object at *)
(* all and, if so, what it holds under messageType, dataArray and data.    *)
(***************************************************************************)
EXTENDS Integers, Sequences, FiniteSets, TLC

VARIABLES
    state,              \* "Uninitialized" | "Active" | "Panicked"
    users,              \* Chat.users: Vec<UserProfile>
    messages,           \* Chat.messages: Vec<MessageData>
    username,           \* Chat.username
    show_emoji_picker,  \* Chat.show_emoji_picker
    chat_input,         \* value of the <input> element behind Chat.chat_input
    first_sent,         \* the first try_send ever made on wss.tx: <<>> until then
    scheduled,          \* Msgs handed to ctx.link().send_message, not yet handled
    last                \* the latest step: the Msg handled, its side effects, its try_sends

vars == <<state, users, messages, username, show_emoji_picker, chat_input,
          first_sent, scheduled, last>>

\* ------------------------------------------------------------------ bounds

MaxHistory == 2
MaxInput == 2
MaxScheduled == 1

\* ------------------------------------------------------------ Rust values

NoneStr == [some |-> FALSE, v |-> <<>>]
SomeStr(s) == [some |-> TRUE, v |-> s]
NoneVec == [some |-> FALSE, v |-> <<>>]
SomeVec(l) == [some |-> TRUE, v |-> l]
NoneI64 == [some |-> FALSE, v |-> 0]
SomeI64(n) == [some |-> TRUE, v |-> n]

\* Option::unwrap_or_default on Option<Vec<String>>
unwrap_or_default(o) == IF o.some THEN o.v ELSE <<>>

\* str::trim: leading and trailing whitespace removed
IsWhitespace(c) == c = " "

RECURSIVE trim_start(_)
trim_start(s) ==
    IF s # <<>> /\ IsWhitespace(Head(s)) THEN trim_start(Tail(s)) ELSE s

RECURSIVE trim_end(_)
trim_end(s) ==
    IF s # <<>> /\ IsWhitespace(s[Len(s)])
    THEN trim_end(SubSeq(s, 1, Len(s) - 1))
    ELSE s

trim(s) == trim_end(trim_start(s))

is_empty(s) == Len(s) = 0

\* ------------------------------------------------------------- wire text

\* A JSON value found under a key of the frame object (or its absence).
JAbsent == [k |-> "absent", a |-> <<>>, s |-> <<>>]
JNull == [k |-> "null", a |-> <<>>, s |-> <<>>]
JNumber == [k |-> "number", a |-> <<>>, s |-> <<>>]
JString(s) == [k |-> "string", a |-> <<>>, s |-> s]
JArray(l) == [k |-> "array", a |-> l, s |-> <<>>]

\* Text that is no JSON object, and the text of a JSON object.
NotJson == [json |-> FALSE, messageType |-> JAbsent, dataArray |-> JAbsent, data |-> JAbsent]
JObject(mt, da, d) == [json |-> TRUE, messageType |-> mt, dataArray |-> da, data |-> d]

\* #[serde(rename_all = "lowercase")] enum MsgTypes { Users, Register, Message }
MsgTypes == {"Users", "Register", "Message"}

MsgTypesTag(t) ==
    CASE t = "Users" -> <<"users">>
      [] t = "Register" -> <<"register">>
      [] t = "Message" -> <<"message">>

\* struct WebSocketMessage { message_type, data_array, data }
WebSocketMessage(mt, da, d) == [message_type |-> mt, data_array |-> da, data |-> d]

Ok(v) == [ok |-> TRUE, v |-> v]
Err == [ok |-> FALSE, v |-> <<>>]

\* to_string as it would be if a None data were written as an empty string.
to_string_NoneAsEmpty(m) ==
    JObject(JString(MsgTypesTag(m.message_type)),
            IF m.data_array.some THEN JArray(m.data_array.v) ELSE JNull,
            IF m.data.some THEN JString(m.data.v) ELSE JString(<<>>))

\* serde_json::to_string(&WebSocketMessage): camelCase keys, a None written as null
to_string(m) ==
    JObject(JString(MsgTypesTag(m.message_type)),
            IF m.data_array.some THEN JArray(m.data_array.v) ELSE JNull,
            IF m.data.some THEN JString(m.data.v) ELSE JNull)

\* serde_json::from_str::<WebSocketMessage>: messageType is required and must be
\* one of the three lowercase tags; the two Option fields accept absence and null.
from_str_WebSocketMessage(s) ==
    IF ~s.json THEN Err
    ELSE IF s.messageType.k # "string" THEN Err
    ELSE IF \A t \in MsgTypes : MsgTypesTag(t) # s.messageType.s THEN Err
    ELSE IF s.dataArray.k \notin {"absent", "null", "array"} THEN Err
    ELSE IF s.data.k \notin {"absent", "null", "string"} THEN Err
    ELSE Ok(WebSocketMessage(
            CHOOSE t \in MsgTypes : MsgTypesTag(t) = s.messageType.s,
            IF s.dataArray.k = "array" THEN SomeVec(s.dataArray.a) ELSE NoneVec,
            IF s.data.k = "string" THEN SomeStr(s.data.s) ELSE NoneStr))

\* struct MessageData { from, message, timestamp: Option<i64> }
MessageData(f, m, t) == [from |-> f, message |-> m, timestamp |-> t]

\* Tokens of the inner text that are numbers, with their values; "null" is null;
\* any other value token is a string literal.
NumVal(tok) == CASE tok = "100" -> 100 [] tok = "0" -> 0 [] OTHER -> -1
IsNumTok(tok) == tok \in {"100", "0"}
IsStrTok(tok) == ~IsNumTok(tok) /\ tok # "null"

\* from_str_MessageData as it would be with the timestamp left out of the struct.
from_str_MessageData_NoTimestamp(s) ==
    LET n == Len(s)
        Keys == {i \in 2..(n - 1) : i % 2 = 0}
        Has(key) == \E i \in Keys : s[i] = key
        Val(key) == s[(CHOOSE i \in Keys : s[i] = key) + 1]
    IN  IF n < 2 \/ n % 2 # 0 THEN Err
        ELSE IF s[1] # "{" \/ s[n] # "}" THEN Err
        ELSE IF ~Has("from") \/ ~Has("message") THEN Err
        ELSE IF ~IsStrTok(Val("from")) \/ ~IsStrTok(Val("message")) THEN Err
        ELSE Ok(MessageData(<<Val("from")>>, <<Val("message")>>, NoneI64))

\* serde_json::from_str::<MessageData>: an object "{" key value ... "}" with
\* from and message present as strings, timestamp absent, null or an integer;
\* unknown keys are skipped, a repeated key is an error.
from_str_MessageData(s) ==
    LET n == Len(s)
        Keys == {i \in 2..(n - 1) : i % 2 = 0}
        Has(key) == \E i \in Keys : s[i] = key
        Dup(key) == \E i, j \in Keys : i # j /\ s[i] = key /\ s[j] = key
        Val(key) == s[(CHOOSE i \in Keys : s[i] = key) + 1]
    IN  IF n < 2 \/ n % 2 # 0 THEN Err
        ELSE IF s[1] # "{" \/ s[n] # "}" THEN Err
        ELSE IF Dup("from") \/ Dup("message") \/ Dup("timestamp") THEN Err
        ELSE IF ~Has("from") \/ ~Has("message") THEN Err
        ELSE IF ~IsStrTok(Val("from")) \/ ~IsStrTok(Val("message")) THEN Err
        ELSE IF Has("timestamp") /\ IsStrTok(Val("timestamp")) THEN Err
        ELSE Ok(MessageData(
                <<Val("from")>>, <<Val("message")>>,
                IF Has("timestamp") /\ IsNumTok(Val("timestamp"))
                THEN SomeI64(NumVal(Val("timestamp")))
                ELSE NoneI64))

\* struct UserProfile { name, avatar, online }, as built for one name of a Users frame
avatar(u) == <<"https://avatars.dicebear.com/api/adventurer-neutral/">> \o u \o <<".svg">>

UserProfile(u) == [name |-> u, avatar |-> avatar(u), online |-> TRUE]

users_from(l) == [i \in 1..Len(l) |-> UserProfile(l[i])]

\* ------------------------------------------------------------------ inputs

\* Display names the User context can hold at creation.
Usernames == {<<"alice">>, <<"bob">>}

\* Name lists a Users frame can carry (one of them repeats a name).
NameLists == {<<>>, <<<<"a">>>>, <<<<"a">>, <<"b">>>>, <<<<"a">>, <<"a">>>>}

\* Inner texts a "message" frame can carry in data.
InnerWithTimestamp == <<"{", "from", "a", "message", "hi", "timestamp", "100", "}">>
InnerNoTimestamp == <<"{", "from", "z", "message", "hi", "}">>
InnerNullTimestamp == <<"{", "from", "z", "message", "hi", "timestamp", "null", "}">>
InnerNoFrom == <<"{", "message", "hi", "}">>
InnerBadTimestamp == <<"{", "from", "a", "message", "hi", "timestamp", "soon", "}">>
InnerPlain == <<"h">>

WellFormedInner == {InnerWithTimestamp, InnerNoTimestamp, InnerNullTimestamp}
MalformedInner == {InnerNoFrom, InnerBadTimestamp, InnerPlain}

\* Frames the event bus can deliver.
UsersFrames ==
    {JObject(JString(<<"users">>), JArray(l), JNull) : l \in NameLists}
    \cup {JObject(JString(<<"users">>), JAbsent, JAbsent),
          JObject(JString(<<"users">>), JNull, JNull)}

MessageFrames ==
    {JObject(JString(<<"message">>), JNull, JString(i)) : i \in WellFormedInner}

RegisterFrames == {JObject(JString(<<"register">>), JNull, JString(<<"carol">>))}

MalformedFrames ==
    {NotJson,
     JObject(JAbsent, JNull, JNull),
     JObject(JNumber, JNull, JNull),
     JObject(JString(<<"users">>), JNumber, JNull),
     JObject(JString(<<"message">>), JNull, JAbsent),
     JObject(JString(<<"message">>), JNull, JNull)}
    \cup {JObject(JString(<<"message">>), JNull, JString(i)) : i \in MalformedInner}

\* A frame whose tag is none of the three.
UnknownTagFrames == {JObject(JString(<<"typing">>), JNull, JNull)}

InboundFrames ==
    UsersFrames \cup MessageFrames \cup RegisterFrames \cup MalformedFrames \cup UnknownTagFrames

\* What the user can have typed into the input field, keys that can be pressed,
\* and glyphs of the emoji picker.
TypedTexts == {<<>>, <<" ">>, <<"h">>, <<" ", "h", " ">>}
KeyEvents == {"Enter", "a"} \X BOOLEAN
Emojis == {"U+1F600"}

\* -------------------------------------------------------------------- Msg

\* enum Msg { HandleMsg(String), SubmitMessage, InputKeyPress(KeyboardEvent),
\*            ToggleEmojiPicker, InsertEmoji(String) }
Msg(type, s, key, shift, emoji) ==
    [type |-> type, s |-> s, key |-> key, shift |-> shift, emoji |-> emoji]

MsgHandleMsg(s) == Msg("HandleMsg", s, "", FALSE, "")
MsgSubmitMessage == Msg("SubmitMessage", NotJson, "", FALSE, "")
MsgInputKeyPress(key, shift) == Msg("InputKeyPress", NotJson, key, shift, "")
MsgToggleEmojiPicker == Msg("ToggleEmojiPicker", NotJson, "", FALSE, "")
MsgInsertEmoji(emoji) == Msg("InsertEmoji", NotJson, "", FALSE, emoji)

\* Steps that are no Msg: the component's creation and the user's typing.
StepCreate == Msg("create", NotJson, "", FALSE, "")
StepInput == Msg("input", NotJson, "", FALSE, "")
StepNone == Msg("none", NotJson, "", FALSE, "")

\* What a step did besides changing the fields: fx is its side effects in the
\* order made ("render" is the re-render yew makes once update has returned
\* true, so it comes last), sent the try_send calls it made, in order, via
\* whether it ran a Msg taken from the scheduler's queue.
Did(msg, fx, sent, via) == [msg |-> msg, fx |-> fx, sent |-> sent, via |-> via]

\* One try_send on wss.tx: the text handed over and whether the channel took it.
TrySend(text, ok) == [text |-> text, ok |-> ok]

\* ------------------------------------------------------------------- Chat

\* The component with what it holds on to: the struct's fields, the input
\* element, the channel and the scheduler's queue.  Every handler below maps
\* such a record to the set of records it can leave behind (one per outcome
\* of a try_send; none where a bound of the model stops the step).  The
\* channel is only ever written: the model keeps its first try_send, and each
\* step tells which try_sends it made.
Self ==
    [state |-> state, users |-> users, messages |-> messages, username |-> username,
     show_emoji_picker |-> show_emoji_picker, chat_input |-> chat_input,
     first_sent |-> first_sent, scheduled |-> scheduled, last |-> last]

Becomes(c) ==
    /\ state' = c.state
    /\ users' = c.users
    /\ messages' = c.messages
    /\ username' = c.username
    /\ show_emoji_picker' = c.show_emoji_picker
    /\ chat_input' = c.chat_input
    /\ first_sent' = c.first_sent
    /\ scheduled' = c.scheduled
    /\ last' = c.last

\* Before Chat::create: nothing exists but the User context holding the name
\* (create expects the context to be set; the model starts where it is).
Init ==
    /\ state = "Uninitialized"
    /\ users = <<>>
    /\ messages = <<>>
    /\ username \in Usernames
    /\ show_emoji_picker = FALSE
    /\ chat_input = <<>>
    /\ first_sent = <<>>
    /\ scheduled = <<>>
    /\ last = Did(StepNone, <<>>, <<>>, FALSE)

\* ----------------------------------------------------------------- create

\* wss.tx.clone().try_send(text) with outcome ok, as the channel sees it.
try_send(self, text, ok) ==
    IF self.first_sent = <<>> THEN <<TrySend(text, ok)>> ELSE self.first_sent

\* create as it would be without the registration.
create_SkipsRegister(self) ==
    {[self EXCEPT !.users = <<>>,
                  !.messages = <<>>,
                  !.show_emoji_picker = FALSE,
                  !.state = "Active",
                  !.last = Did(StepCreate, <<>>, <<>>, FALSE)]}

\* create as it would be with the try_send unwrapped.
create_UnwrapsSend(self) ==
    LET message == WebSocketMessage("Register", NoneVec, SomeStr(self.username))
    IN  {[self EXCEPT !.first_sent = try_send(self, to_string(message), ok),
                      !.state = IF ok THEN "Active" ELSE "Panicked",
                      !.last = Did(StepCreate, IF ok THEN <<>> ELSE <<"panic">>,
                                   <<TrySend(to_string(message), ok)>>, FALSE)]
         : ok \in BOOLEAN}

\* Chat::create: one try_send of the Register frame, whatever its outcome, then
\* the fields; the bridge to the event bus exists from here on.
create(self) ==
    LET message == WebSocketMessage("Register", NoneVec, SomeStr(self.username))
    IN  {[self EXCEPT !.first_sent = try_send(self, to_string(message), ok),
                      !.users = <<>>,
                      !.messages = <<>>,
                      !.show_emoji_picker = FALSE,
                      !.state = "Active",
                      !.last = Did(StepCreate, <<>>, <<TrySend(to_string(message), ok)>>, FALSE)]
         : ok \in BOOLEAN}

\* ----------------------------------------------------------------- update

\* A panic (an unwrap on Err or None) ends the component: no field is written.
Panic(self, msg, via) ==
    {[self EXCEPT !.state = "Panicked", !.last = Did(msg, <<"panic">>, <<>>, via)]}

\* The Users arm as it would be if it merged the names into the roster.
HandleUsers_Merges(self, m, msg, via) ==
    {[self EXCEPT !.users = self.users \o users_from(unwrap_or_default(m.data_array)),
                  !.last = Did(msg, <<"render">>, <<>>, via)]}

\* The Users arm as it would be if a new roster also emptied the history.
HandleUsers_ClearsHistory(self, m, msg, via) ==
    {[self EXCEPT !.users = users_from(unwrap_or_default(m.data_array)),
                  !.messages = <<>>,
                  !.last = Did(msg, <<"render">>, <<>>, via)]}

\* The Users arm as it would be if a frame without a name list kept the roster.
HandleUsers_KeepsOnNone(self, m, msg, via) ==
    {[self EXCEPT !.users = IF m.data_array.some THEN users_from(m.data_array.v) ELSE self.users,
                  !.last = Did(msg, <<"render">>, <<>>, via)]}

\* Msg::HandleMsg(s), MsgTypes::Users arm
HandleUsers(self, m, msg, via) ==
    LET users_from_message == unwrap_or_default(m.data_array)
    IN  {[self EXCEPT !.users = users_from(users_from_message),
                      !.last = Did(msg, <<"render">>, <<>>, via)]}

\* The Message arm as it would be with a history capped at the latest message.
HandleMessage_Capped(self, m, msg, via) ==
    IF ~m.data.some \/ ~from_str_MessageData(m.data.v).ok
    THEN {[self EXCEPT !.state = "Panicked", !.last = Did(msg, <<"panic">>, <<>>, via)]}
    ELSE {[self EXCEPT !.messages = <<from_str_MessageData(m.data.v).v>>,
                       !.last = Did(msg, <<"scroll", "render">>, <<>>, via)]}

\* The Message arm as it would be if it put the newest message first.
HandleMessage_Prepends(self, m, msg, via) ==
    IF ~m.data.some \/ ~from_str_MessageData(m.data.v).ok
    THEN {[self EXCEPT !.state = "Panicked", !.last = Did(msg, <<"panic">>, <<>>, via)]}
    ELSE IF Len(self.messages) >= MaxHistory THEN {}
    ELSE {[self EXCEPT !.messages = <<from_str_MessageData(m.data.v).v>> \o self.messages,
                       !.last = Did(msg, <<"scroll", "render">>, <<>>, via)]}

\* The Message arm as it would be without the scroll to the bottom.
HandleMessage_NoScroll(self, m, msg, via) ==
    IF ~m.data.some \/ ~from_str_MessageData(m.data.v).ok
    THEN {[self EXCEPT !.state = "Panicked", !.last = Did(msg, <<"panic">>, <<>>, via)]}
    ELSE IF Len(self.messages) >= MaxHistory THEN {}
    ELSE {[self EXCEPT !.messages = Append(self.messages, from_str_MessageData(m.data.v).v),
                       !.last = Did(msg, <<"render">>, <<>>, via)]}

\* Msg::HandleMsg(s), MsgTypes::Message arm
HandleMessage(self, m, msg, via) ==
    IF ~m.data.some \/ ~from_str_MessageData(m.data.v).ok
    THEN Panic(self, msg, via)
    ELSE IF Len(self.messages) >= MaxHistory THEN {}
    ELSE {[self EXCEPT !.messages = Append(self.messages, from_str_MessageData(m.data.v).v),
                       !.last = Did(msg, <<"scroll", "render">>, <<>>, via)]}

\* Msg::HandleMsg(s)
UpdateHandleMsg(self, s, via) ==
    LET r == from_str_WebSocketMessage(s)
        msg == MsgHandleMsg(s)
    IN  IF ~r.ok THEN Panic(self, msg, via)
        ELSE CASE r.v.message_type = "Users" -> HandleUsers(self, r.v, msg, via)
               [] r.v.message_type = "Message" -> HandleMessage(self, r.v, msg, via)
               [] OTHER -> {[self EXCEPT !.last = Did(msg, <<>>, <<>>, via)]}

\* The text Msg::SubmitMessage puts in the data field of the frame it sends.
SubmitData(message_text) == message_text

\* Submit as it would be if it cleared the field whatever the text.
UpdateSubmitMessage_AlwaysClears(self, via) ==
    LET message_text == self.chat_input
        message == WebSocketMessage("Message", NoneVec, SomeStr(SubmitData(message_text)))
    IN  IF ~is_empty(trim(message_text))
        THEN {[self EXCEPT !.first_sent = try_send(self, to_string(message), ok),
                           !.chat_input = <<>>,
                           !.last = Did(MsgSubmitMessage, <<>>,
                                        <<TrySend(to_string(message), ok)>>, via)]
              : ok \in BOOLEAN}
        ELSE {[self EXCEPT !.chat_input = <<>>,
                           !.last = Did(MsgSubmitMessage, <<>>, <<>>, via)]}

\* Submit as it would be if it kept the text of a failed send in the field.
UpdateSubmitMessage_KeepsOnFailure(self, via) ==
    LET message_text == self.chat_input
        message == WebSocketMessage("Message", NoneVec, SomeStr(SubmitData(message_text)))
    IN  IF ~is_empty(trim(message_text))
        THEN {[self EXCEPT !.first_sent = try_send(self, to_string(message), ok),
                           !.chat_input = IF ok THEN <<>> ELSE message_text,
                           !.last = Did(MsgSubmitMessage, <<>>,
                                        <<TrySend(to_string(message), ok)>>, via)]
              : ok \in BOOLEAN}
        ELSE {[self EXCEPT !.last = Did(MsgSubmitMessage, <<>>, <<>>, via)]}

\* Submit as it would be if a failed try_send were tried once more.
UpdateSubmitMessage_Retries(self, via) ==
    LET message_text == self.chat_input
        message == WebSocketMessage("Message", NoneVec, SomeStr(SubmitData(message_text)))
    IN  IF ~is_empty(trim(message_text))
        THEN {[self EXCEPT !.first_sent = try_send(self, to_string(message), ok),
                           !.chat_input = <<>>,
                           !.last = Did(MsgSubmitMessage, <<>>,
                                        IF ok THEN <<TrySend(to_string(message), TRUE)>>
                                        ELSE <<TrySend(to_string(message), FALSE),
                                               TrySend(to_string(message), again)>>, via)]
              : ok \in BOOLEAN, again \in BOOLEAN}
        ELSE {[self EXCEPT !.last = Did(MsgSubmitMessage, <<>>, <<>>, via)]}

\* Msg::SubmitMessage
UpdateSubmitMessage(self, via) ==
    LET message_text == self.chat_input
        message == WebSocketMessage("Message", NoneVec, SomeStr(SubmitData(message_text)))
    IN  IF ~is_empty(trim(message_text))
        THEN {[self EXCEPT !.first_sent = try_send(self, to_string(message), ok),
                           !.chat_input = <<>>,
                           !.last = Did(MsgSubmitMessage, <<>>,
                                        <<TrySend(to_string(message), ok)>>, via)]
              : ok \in BOOLEAN}
        ELSE {[self EXCEPT !.last = Did(MsgSubmitMessage, <<>>, <<>>, via)]}

\* SubmitsOn as it would be without the test of the shift key.
SubmitsOn_IgnoresShift(key, shift) == key = "Enter"

\* Whether Msg::InputKeyPress submits.
SubmitsOn(key, shift) == key = "Enter" /\ ~shift

\* Msg::InputKeyPress(event): the Submit is handed to the scheduler, not run here.
UpdateInputKeyPress(self, key, shift, via) ==
    IF SubmitsOn(key, shift) /\ Len(self.scheduled) >= MaxScheduled THEN {}
    ELSE IF SubmitsOn(key, shift)
    THEN {[self EXCEPT !.scheduled = Append(self.scheduled, MsgSubmitMessage),
                       !.last = Did(MsgInputKeyPress(key, shift),
                                    <<"preventDefault", "send_message">>, <<>>, via)]}
    ELSE {[self EXCEPT !.last = Did(MsgInputKeyPress(key, shift), <<>>, <<>>, via)]}

\* Msg::ToggleEmojiPicker
UpdateToggleEmojiPicker(self, via) ==
    {[self EXCEPT !.show_emoji_picker = ~self.show_emoji_picker,
                  !.last = Did(MsgToggleEmojiPicker, <<"render">>, <<>>, via)]}

\* InsertEmoji as it would be if the glyph replaced the text of the field.
UpdateInsertEmoji_Replaces(self, emoji, via) ==
    LET current_value == self.chat_input
    IN  IF Len(current_value) >= MaxInput THEN {}
        ELSE {[self EXCEPT !.chat_input = <<emoji>>,
                           !.show_emoji_picker = FALSE,
                           !.last = Did(MsgInsertEmoji(emoji), <<"focus", "render">>, <<>>, via)]}

\* InsertEmoji as it would be if it left the picker as it is.
UpdateInsertEmoji_KeepsPicker(self, emoji, via) ==
    LET current_value == self.chat_input
    IN  IF Len(current_value) >= MaxInput THEN {}
        ELSE {[self EXCEPT !.chat_input = current_value \o <<emoji>>,
                           !.last = Did(MsgInsertEmoji(emoji), <<"focus", "render">>, <<>>, via)]}

\* Msg::InsertEmoji(emoji)
UpdateInsertEmoji(self, emoji, via) ==
    LET current_value == self.chat_input
    IN  IF Len(current_value) >= MaxInput THEN {}
        ELSE {[self EXCEPT !.chat_input = current_value \o <<emoji>>,
                           !.show_emoji_picker = FALSE,
                           !.last = Did(MsgInsertEmoji(emoji), <<"focus", "render">>, <<>>, via)]}

\* ----------------------------------------------------------------- events

\* The component takes an event from outside once it exists and has not
\* panicked, whether or not a Msg handed to send_message still waits.
Idle(self) == self.state = "Active"

\* Chat::create runs once, first.
CreateFrom(self) == IF self.state = "Uninitialized" THEN create(self) ELSE {}

\* The event bus delivers a frame: the bridge's callback makes it Msg::HandleMsg.
HandleMsgFrom(self) ==
    IF Idle(self) THEN UNION {UpdateHandleMsg(self, s, FALSE) : s \in InboundFrames} ELSE {}

\* A click on the send button.
SubmitMessageFrom(self) == IF Idle(self) THEN UpdateSubmitMessage(self, FALSE) ELSE {}

\* A key pressed in the input field.
InputKeyPressFrom(self) ==
    IF Idle(self)
    THEN UNION {UpdateInputKeyPress(self, e[1], e[2], FALSE) : e \in KeyEvents}
    ELSE {}

\* A click on the emoji button.
ToggleEmojiPickerFrom(self) == IF Idle(self) THEN UpdateToggleEmojiPicker(self, FALSE) ELSE {}

\* A click on a glyph of the picker.
InsertEmojiFrom(self) ==
    IF Idle(self) THEN UNION {UpdateInsertEmoji(self, emoji, FALSE) : emoji \in Emojis} ELSE {}

\* The scheduler runs the oldest Msg handed to send_message; only
\* Msg::SubmitMessage is ever handed to it.  When it runs is the scheduler's
\* choice, not this component's: other events may reach update first.
RunScheduledFrom(self) ==
    IF self.state = "Active" /\ self.scheduled # <<>> /\ Head(self.scheduled) = MsgSubmitMessage
    THEN UpdateSubmitMessage([self EXCEPT !.scheduled = Tail(self.scheduled)], TRUE)
    ELSE {}

\* The user edits the input field; no Msg is involved.
UserTypesFrom(self) ==
    IF Idle(self)
    THEN {[self EXCEPT !.chat_input = t, !.last = Did(StepInput, <<>>, <<>>, FALSE)] : t \in TypedTexts}
    ELSE {}

\* ---------------------------------------------------------------- actions

Create == \E c \in CreateFrom(Self) : Becomes(c)
HandleMsg == \E c \in HandleMsgFrom(Self) : Becomes(c)
SubmitMessage == \E c \in SubmitMessageFrom(Self) : Becomes(c)
InputKeyPress == \E c \in InputKeyPressFrom(Self) : Becomes(c)
ToggleEmojiPicker == \E c \in ToggleEmojiPickerFrom(Self) : Becomes(c)
InsertEmoji == \E c \in InsertEmojiFrom(Self) : Becomes(c)
RunScheduled == \E c \in RunScheduledFrom(Self) : Becomes(c)
UserTypes == \E c \in UserTypesFrom(Self) : Becomes(c)

Next ==
    \/ Create
    \/ HandleMsg
    \/ SubmitMessage
    \/ InputKeyPress
    \/ ToggleEmojiPicker
    \/ InsertEmoji
    \/ RunScheduled
    \/ UserTypes

Spec == Init /\ [][Next]_vars

\* The scheduler does run what send_message hands to it: a queued Msg is not
\* left waiting forever while the component can handle it.
SpecFair == Spec /\ WF_vars(RunScheduled)

TypeOK ==
    /\ state \in {"Uninitialized", "Active", "Panicked"}
    /\ username \in Usernames
    /\ show_emoji_picker \in BOOLEAN
    /\ Len(messages) <= MaxHistory
    /\ Len(first_sent) <= 1
    /\ Len(scheduled) <= MaxScheduled

\* ----------------------------------------------------------------- claims

\* What the steps of the properties below talk about.
Handled(type) == last'.msg.type = type
Decoded(text) == from_str_WebSocketMessage(text)
Blank(text) == \A i \in 1..Len(text) : text[i] = " "

\* C1: handling a malformed or schema-violating inbound frame never crashes the
\* session: the frame is dropped, roster, history, username and picker flag are
\* unchanged and the session goes on handling events.
C1_MalformedFrameIsDropped ==
    [][(Handled("HandleMsg") /\ last'.msg.s \in MalformedFrames)
       => (state' = "Active" /\ UNCHANGED <<users, messages, username, show_emoji_picker>>)]_vars

\* C2: the first try_send ever made is the Register frame of the session's
\* username, made by create, and until then no frame and no user action has
\* been handled.
C2_RegisterIsFirst ==
    /\ state = "Uninitialized"
         => (first_sent = <<>> /\ last.msg = StepNone /\ last.sent = <<>>
             /\ users = <<>> /\ messages = <<>>)
    /\ state # "Uninitialized"
         => /\ Len(first_sent) = 1
            /\ first_sent[1].text.messageType = JString(<<"register">>)
            /\ Decoded(first_sent[1].text).ok
            /\ Decoded(first_sent[1].text).v
                 = WebSocketMessage("Register", NoneVec, SomeStr(username))
    /\ last.msg = StepCreate => last.sent = first_sent

C2_Witness ==
    /\ state = "Active"
    /\ last.msg = StepCreate
    /\ username = <<"alice">>
    /\ Len(first_sent) = 1
    /\ first_sent[1].text.data = JString(<<"alice">>)

\* C3: a Submit of a text t that is not empty after trimming makes exactly one
\* try_send, of a Message frame whose body is trim(t).
C3_SubmitSendsTrimmed ==
    [][(Handled("SubmitMessage") /\ ~Blank(chat_input))
       => /\ Len(last'.sent) = 1
          /\ Decoded(last'.sent[1].text).ok
          /\ Decoded(last'.sent[1].text).v
               = WebSocketMessage("Message", NoneVec, SomeStr(trim(chat_input)))]_vars

\* C4: after a Users frame with name list L the roster is exactly the users built
\* from L, in the order of L: name, the avatar template applied to it, online.
C4_UsersFrameReplacesRoster ==
    (last.msg.type = "HandleMsg" /\ last.msg.s \in UsersFrames /\ last.msg.s.dataArray.k = "array")
    => LET L == last.msg.s.dataArray.a
       IN  /\ Len(users) = Len(L)
           /\ \A i \in 1..Len(L) :
                 /\ users[i].name = L[i]
                 /\ users[i].avatar = <<"https://avatars.dicebear.com/api/adventurer-neutral/">>
                                        \o L[i] \o <<".svg">>
                 /\ users[i].online = TRUE

C4_Witness ==
    /\ last.msg.type = "HandleMsg"
    /\ last.msg.s \in UsersFrames
    /\ last.msg.s.dataArray = JArray(<<<<"a">>, <<"b">>>>)
    /\ Len(users) = 2
    /\ users[2].name = <<"b">>
    /\ messages # <<>>

\* C5: no two entries of the roster have the same name.
C5_RosterNamesUnique ==
    \A i, j \in 1..Len(users) : i # j => users[i].name # users[j].name

\* C6: a well-formed Message frame appends exactly one element to the history,
\* with the frame's from, body and optional timestamp, whoever it is from and
\* whatever the history holds already.
ExpectedMessage(inner) ==
    CASE inner = InnerWithTimestamp -> [from |-> <<"a">>, message |-> <<"hi">>,
                                        timestamp |-> [some |-> TRUE, v |-> 100]]
      [] inner = InnerNoTimestamp -> [from |-> <<"z">>, message |-> <<"hi">>,
                                      timestamp |-> [some |-> FALSE, v |-> 0]]
      [] inner = InnerNullTimestamp -> [from |-> <<"z">>, message |-> <<"hi">>,
                                        timestamp |-> [some |-> FALSE, v |-> 0]]

C6_MessageFrameAppendsOne ==
    [][(Handled("HandleMsg") /\ last'.msg.s \in MessageFrames)
       => messages' = Append(messages, ExpectedMessage(last'.msg.s.data.s))]_vars

C6_Witness ==
    /\ last.msg.type = "HandleMsg"
    /\ last.msg.s \in MessageFrames
    /\ Len(messages) = 2
    /\ messages[1] = messages[2]
    /\ messages[2].from = <<"z">>
    /\ ~messages[2].timestamp.some
    /\ users = <<>>

\* C7: the history is append-only: over any step the history before is a prefix
\* of the history after.
C7_HistoryAppendOnly ==
    [][/\ Len(messages') >= Len(messages)
       /\ SubSeq(messages', 1, Len(messages)) = messages]_vars

C7_Witness ==
    /\ Len(messages) = 2
    /\ messages[1] # messages[2]
    /\ last.msg.type = "ToggleEmojiPicker"
    /\ users # <<>>

\* C8: a Submit of a text that is empty after trimming makes no try_send and
\* leaves the input field as it was.
C8_BlankSubmitIsNoOp ==
    [][(Handled("SubmitMessage") /\ Blank(chat_input))
       => (last'.sent = <<>> /\ first_sent' = first_sent /\ chat_input' = chat_input)]_vars

C8_Witness ==
    /\ last.msg = MsgSubmitMessage
    /\ last.sent = <<>>
    /\ chat_input = <<" ">>

\* C9: a Submit whose try_send fails still clears the input field, leaves
\* roster, history and picker alone and the session active; and nothing is ever
\* sent again: every try_send after creation is a Submit of the text then in
\* the field.
C9_FailedSendIsForgotten ==
    [][/\ (Handled("SubmitMessage") /\ last'.sent # <<>> /\ ~last'.sent[1].ok)
          => (chat_input' = <<>> /\ state' = "Active"
              /\ UNCHANGED <<users, messages, show_emoji_picker, username>>)
       /\ (state = "Active" /\ last'.sent # <<>>)
          => /\ Handled("SubmitMessage")
             /\ ~Blank(chat_input)
             /\ Len(last'.sent) = 1
             /\ last'.sent[1].text.messageType = JString(<<"message">>)
             /\ last'.sent[1].text.data.k = "string"
             /\ trim(last'.sent[1].text.data.s) = trim(chat_input)]_vars

C9_Witness ==
    /\ last.msg = MsgSubmitMessage
    /\ Len(last.sent) = 1
    /\ ~last.sent[1].ok
    /\ chat_input = <<>>
    /\ state = "Active"
    /\ users # <<>>
    /\ messages # <<>>
    /\ show_emoji_picker

\* C10: a failed Register attempt still leaves the session active with empty
\* roster and history, the Register frame is never sent again, and every later
\* step is the one the session would take had the attempt succeeded.
RegisterOutcomeFlipped(self) ==
    IF self.first_sent = <<>> THEN self
    ELSE [self EXCEPT !.first_sent[1].ok = ~self.first_sent[1].ok]

StepsOf(msg, self) ==
    LET type == msg.type
    IN
    CASE type = "HandleMsg" ->
            IF Idle(self) /\ msg.s \in InboundFrames
            THEN UpdateHandleMsg(self, msg.s, FALSE)
            ELSE {}
      [] type = "SubmitMessage" -> SubmitMessageFrom(self) \cup RunScheduledFrom(self)
      [] type = "InputKeyPress" -> InputKeyPressFrom(self)
      [] type = "ToggleEmojiPicker" -> ToggleEmojiPickerFrom(self)
      [] type = "InsertEmoji" -> InsertEmojiFrom(self)
      [] type = "input" -> UserTypesFrom(self)
      [] OTHER -> {}

C10_FailedRegisterChangesNothing ==
    [][/\ Handled("create")
          => /\ Len(last'.sent) = 1
             /\ ~last'.sent[1].ok
                  => (state' = "Active" /\ users' = <<>> /\ messages' = <<>>)
       /\ state = "Active"
          => /\ first_sent' = first_sent
             /\ \A i \in 1..Len(last'.sent) :
                   last'.sent[i].text.messageType # JString(<<"register">>)
             /\ RegisterOutcomeFlipped(Self')
                  \in StepsOf(last'.msg, RegisterOutcomeFlipped(Self))]_vars

C10_Witness ==
    /\ state = "Active"
    /\ ~first_sent[1].ok
    /\ last.msg = MsgSubmitMessage
    /\ Len(last.sent) = 1
    /\ last.sent[1].ok
    /\ users # <<>>
    /\ messages # <<>>
    /\ show_emoji_picker

\* C11: inbound frames are applied in the order delivered, one per step: the
\* session starts with empty history and roster, each delivered Message frame
\* puts its message at the end of the history as it is then, each delivered
\* Users frame makes the roster the one built from its names, and no other step
\* touches either; so the history is the Message frames in delivery order and
\* the roster that of the last Users frame.
WellFormedFrames == UsersFrames \cup MessageFrames \cup RegisterFrames

RosterOf(frame) ==
    IF frame.dataArray.k = "array"
    THEN [i \in 1..Len(frame.dataArray.a) |->
            [name |-> frame.dataArray.a[i],
             avatar |-> <<"https://avatars.dicebear.com/api/adventurer-neutral/">>
                          \o frame.dataArray.a[i] \o <<".svg">>,
             online |-> TRUE]]
    ELSE <<>>

C11_FramesAppliedInOrder ==
    [][/\ Handled("create") => (messages' = <<>> /\ users' = <<>>)
       /\ (state = "Active" /\ Handled("HandleMsg") /\ last'.msg.s \in WellFormedFrames)
          => /\ ~last'.via
             /\ state' = "Active"
             /\ messages' = IF last'.msg.s \in MessageFrames
                            THEN messages \o <<ExpectedMessage(last'.msg.s.data.s)>>
                            ELSE messages
             /\ users' = IF last'.msg.s \in UsersFrames THEN RosterOf(last'.msg.s) ELSE users
       /\ (state = "Active" /\ ~(Handled("HandleMsg") /\ last'.msg.s \in WellFormedFrames))
          => UNCHANGED <<messages, users>>]_vars

\* Users [a], a message with a timestamp, Users [a, b], a message without one.
C11_Witness ==
    /\ last.msg.type = "HandleMsg"
    /\ last.msg.s = JObject(JString(<<"message">>), JNull, JString(InnerNoTimestamp))
    /\ Len(messages) = 2
    /\ messages[1].timestamp.some
    /\ ~messages[2].timestamp.some
    /\ Len(users) = 2
    /\ users[1].name = <<"a">>
    /\ users[2].name = <<"b">>

\* C12: decoding the encoding of a wire message gives the message back, for
\* each of the three variants and whatever its two optional fields hold; and
\* every frame the session hands to try_send is the encoding of the message it
\* decodes to with the decoding applied to inbound frames: the Register of the
\* username at creation, a Message carrying text on Submit.
WireMessages ==
    {WebSocketMessage(mt, da, d) :
        mt \in MsgTypes,
        da \in {NoneVec} \cup {SomeVec(l) : l \in NameLists},
        d \in {NoneStr} \cup {SomeStr(s) : s \in {<<>>, <<" ", "h", " ">>, <<"alice">>}}}

C13_OtherTagIsIgnored ==
    [][(Handled("HandleMsg") /\ last'.msg.s \in RegisterFrames \cup UnknownTagFrames)
       => /\ state' = "Active"
          /\ \A i \in 1..Len(last'.fx) : last'.fx[i] # "panic"
          /\ UNCHANGED <<users, messages, username, show_emoji_picker>>]_vars

\* C14: InsertEmoji(g) with text t in the input field makes the text t followed
\* by g and leaves the picker closed, whether it was open or closed; it makes
\* no try_send and leaves roster and history alone.
C14_InsertEmojiAppendsAndCloses ==
    [][Handled("InsertEmoji")
       => /\ chat_input' = chat_input \o <<last'.msg.emoji>>
          /\ last'.msg.emoji \in Emojis
          /\ show_emoji_picker' = FALSE
          /\ last'.sent = <<>>
          /\ first_sent' = first_sent
          /\ state' = "Active"
          /\ UNCHANGED <<users, messages, username>>]_vars

C14_Witness ==
    /\ last.msg = MsgInsertEmoji("U+1F600")
    /\ chat_input = <<"h", "U+1F600">>
    /\ ~show_emoji_picker
    /\ users # <<>>
    /\ messages # <<>>

\* C15: a key press hands a Submit to the scheduler if and only if the key is
\* Enter and shift is not held, and then the key's default effect is
\* suppressed; any other key press, Enter with shift held included, hands over
\* nothing; no key press makes a try_send or changes a field or the input
\* text; and a Submit is run from the scheduler only if such an Enter put it
\* there.
C15_OnlyPlainEnterSubmits ==
    [][/\ Handled("InputKeyPress")
          => /\ IF last'.msg.key = "Enter" /\ ~last'.msg.shift
                THEN /\ scheduled' = scheduled \o <<MsgSubmitMessage>>
                     /\ last'.fx = <<"preventDefault", "send_message">>
                ELSE /\ scheduled' = scheduled
                     /\ last'.fx = <<>>
             /\ last'.sent = <<>>
             /\ first_sent' = first_sent
             /\ UNCHANGED <<state, users, messages, username, show_emoji_picker, chat_input>>
       /\ (Handled("SubmitMessage") /\ last'.via)
          => (scheduled # <<>> /\ Head(scheduled) = MsgSubmitMessage
              /\ scheduled' = Tail(scheduled))
       /\ ~Handled("InputKeyPress") => Len(scheduled') <= Len(scheduled)]_vars

C15_Witness ==
    /\ last.msg = MsgInputKeyPress("Enter", FALSE)
    /\ last.fx = <<"preventDefault", "send_message">>
    /\ scheduled = <<MsgSubmitMessage>>
    /\ chat_input = <<" ", "h", " ">>
    /\ show_emoji_picker

\* C16: a step that appends a message to the history scrolls to the bottom in
\* that same step, once, before the re-render the append causes; no other
\* step scrolls: not a Users frame, not an ignored frame, not a user action.
C16_ScrollOnAppendOnly ==
    [][IF Handled("HandleMsg") /\ Len(messages') = Len(messages) + 1
       THEN last'.fx = <<"scroll", "render">>
       ELSE \A i \in 1..Len(last'.fx) : last'.fx[i] # "scroll"]_vars

C16_Witness ==
    /\ last.msg.type = "HandleMsg"
    /\ last.msg.s \in MessageFrames
    /\ last.fx = <<"scroll", "render">>
    /\ Len(messages) = 2
    /\ messages[2].timestamp.some
    /\ users # <<>>
    /\ chat_input # <<>>

\* C17: each event changes only its own part of the session: a Users frame
\* only the roster, a Message frame only the history, Submit only the input
\* text, InsertEmoji only the input text and the picker flag, ToggleEmojiPicker
\* only the picker flag, a key press nothing; and the username never changes.
C17_EventsChangeOwnPartOnly ==
    [][/\ username' = username
       /\ (Handled("HandleMsg") /\ last'.msg.s \in UsersFrames)
          => UNCHANGED <<state, messages, show_emoji_picker, chat_input>>
       /\ (Handled("HandleMsg") /\ last'.msg.s \in MessageFrames)
          => UNCHANGED <<state, users, show_emoji_picker, chat_input>>
       /\ Handled("SubmitMessage")
          => UNCHANGED <<state, users, messages, show_emoji_picker>>
       /\ Handled("InsertEmoji")
          => UNCHANGED <<state, users, messages>>
       /\ Handled("ToggleEmojiPicker")
          => UNCHANGED <<state, users, messages, chat_input>>
       /\ Handled("InputKeyPress")
          => UNCHANGED <<state, users, messages, show_emoji_picker, chat_input>>]_vars

C17_Witness ==
    /\ last.msg.type = "HandleMsg"
    /\ last.msg.s \in UsersFrames
    /\ users = <<>>
    /\ Len(messages) = 2
    /\ show_emoji_picker
    /\ chat_input = <<"h", "U+1F600">>
    /\ username = <<"bob">>

\* C18: the picker is open exactly when the number of ToggleEmojiPicker steps
\* since creation or since the latest InsertEmoji is odd: it is closed before
\* and after creation and after every InsertEmoji, every ToggleEmojiPicker
\* step inverts it, and no other step, inbound frame, Submit, key press or
\* typing, changes it.
C18_PickerIsToggleParity ==
    [][/\ state = "Uninitialized" => ~show_emoji_picker
       /\ IF Handled("ToggleEmojiPicker") THEN show_emoji_picker' = ~show_emoji_picker
          ELSE IF Handled("create") \/ Handled("InsertEmoji") THEN show_emoji_picker' = FALSE
          ELSE show_emoji_picker' = show_emoji_picker]_vars

\* Closed right after a toggle: the second of two toggles at least.
C18_Witness ==
    /\ last.msg = MsgToggleEmojiPicker
    /\ ~show_emoji_picker
    /\ chat_input = <<"U+1F600">>
    /\ messages # <<>>

\* C19: the try_sends of a run are one at creation plus one for each Submit
\* handled with a text that is not empty after trimming: each such step makes
\* exactly one try_send whatever its outcome, and no other step makes any,
\* not an inbound frame, ToggleEmojiPicker, InsertEmoji, a key press or a
\* Submit of a blank text; so no frame is tried twice.
C19_OneSendPerSubmit ==
    [][Len(last'.sent)
         = IF Handled("create") \/ (Handled("SubmitMessage") /\ ~is_empty(trim(chat_input)))
           THEN 1
           ELSE 0]_vars

C19_Witness ==
    /\ last.msg = MsgSubmitMessage
    /\ last.via
    /\ Len(last.sent) = 1
    /\ ~last.sent[1].ok
    /\ last.sent[1].text.data = JString(<<"h">>)
    /\ first_sent[1].ok
    /\ chat_input = <<>>

\* C20: a Users frame whose dataArray is absent or null is handled as one with
\* an empty name list: the roster becomes empty, nothing fails, and history,
\* username and picker flag are unchanged.
C20_UsersWithoutListEmptiesRoster ==
    [][(Handled("HandleMsg") /\ last'.msg.s \in UsersFrames
          /\ last'.msg.s.dataArray.k \in {"absent", "null"})
       => /\ users' = <<>>
          /\ state' = "Active"
          /\ last'.fx = <<"render">>
          /\ UNCHANGED <<messages, username, show_emoji_picker>>]_vars

C20_Witness ==
    /\ last.msg.type = "HandleMsg"
    /\ last.msg.s = JObject(JString(<<"users">>), JAbsent, JAbsent)
    /\ state = "Active"
    /\ users = <<>>
    /\ Len(messages) = 1
    /\ show_emoji_picker

\* C21: Enter without shift does not submit inline: it puts exactly one Submit
\* in the scheduler's queue, where it waits while other events are handled;
\* every queued Submit is handled in the end, once, taking the text then in
\* the input field, not the text of the time of the key press.
QueuedSubmitStep ==
    /\ (Handled("InputKeyPress") /\ last'.msg.key = "Enter" /\ ~last'.msg.shift)
       => /\ scheduled' = scheduled \o <<MsgSubmitMessage>>
          /\ last'.sent = <<>>
          /\ first_sent' = first_sent
          /\ chat_input' = chat_input
    /\ (Handled("SubmitMessage") /\ last'.via)
       => /\ scheduled # <<>>
          /\ scheduled' = Tail(scheduled)
          /\ IF is_empty(trim(chat_input))
             THEN last'.sent = <<>> /\ chat_input' = chat_input
             ELSE /\ Len(last'.sent) = 1
                  /\ last'.sent[1].text.messageType = JString(<<"message">>)
                  /\ last'.sent[1].text.data = JString(chat_input)
                  /\ chat_input' = <<>>
    /\ ~(Handled("SubmitMessage") /\ last'.via)
       => Len(scheduled') >= Len(scheduled)
    /\ ~(Handled("InputKeyPress") /\ last'.msg.key = "Enter" /\ ~last'.msg.shift)
       => Len(scheduled') <= Len(scheduled)

====
